---- MODULE Spec2Model ----
(***************************************************************************)
(* Model of ava/shared/datatypes/datatypes.go: the StructuredInput record  *)
(* (Add, Pronouns, String) and the StringSlice array-column codec (Value,  *)
(* Scan).  A Go string is modelled as a sequence of one-character strings, *)
(* a []string as a sequence of such sequences.                             *)
(***************************************************************************)
EXTENDS Integers, Sequences, FiniteSets, TLC

VARIABLES
    si,      \* the StructuredInput: its five StringSlice fields
    applied, \* history: the (word, class) pairs the Add loop has gone through without error
    handed,  \* history: the number of pairs handed to Add so far
    s,       \* a StringSlice bound to an array column: the receiver of Value and Scan
    col,     \* what the column holds: the src the driver hands to Scan
    enc,     \* history: whether col is a text returned by Value, and for which list
    call     \* the last method call: its arguments, its result, the receiver before it

vars == <<si, applied, handed, s, col, enc, call>>

-----------------------------------------------------------------------------
(* Bounds of the model *)

MaxWords == 3     \* pairs handed to Add over the life of one StructuredInput
MaxBatch == 3     \* pairs in one Add call
MaxFill == 4      \* words in a StructuredInput that is read by Pronouns and String
MaxInput == 4     \* size of what a codec run starts from: elements of s plus bytes of col
MaxElemLen == 7   \* Value is not called again once an element would grow past this

-----------------------------------------------------------------------------
(* Characters *)

BS == "\\"
DQ == "\""
COMMA == ","
LBRACE == "{"
RBRACE == "}"
NL == "\n"

-----------------------------------------------------------------------------
(* Class numbers and lookup tables *)

CommandI == 1
ActorI == 2
ObjectI == 3
TimeI == 4
PlaceI == 5
NoneI == 6

PronounsMap(w) ==
    CASE w = <<"m", "e">> -> ActorI
      [] w = <<"u", "s">> -> ActorI
      [] w = <<"y", "o", "u">> -> ActorI
      [] w = <<"h", "i", "m">> -> ActorI
      [] w = <<"h", "e", "r">> -> ActorI
      [] w = <<"t", "h", "e", "m">> -> ActorI
      [] w = <<"i", "t">> -> ObjectI
      [] w = <<"t", "h", "a", "t">> -> ObjectI
      [] w = <<"t", "h", "e", "r", "e">> -> PlaceI
      [] w = <<"t", "h", "e", "n">> -> TimeI
      [] OTHER -> 0

EmptyInput ==
    [Commands |-> <<>>, Actors |-> <<>>, Objects |-> <<>>, Times |-> <<>>, Places |-> <<>>]

-----------------------------------------------------------------------------
(* strings.Replace(str, old, new, -1) and strings.Join *)

RECURSIVE ReplaceAll(_, _, _)
ReplaceAll(str, old, new) ==
    IF Len(str) < Len(old) THEN str
    ELSE IF SubSeq(str, 1, Len(old)) = old
         THEN new \o ReplaceAll(SubSeq(str, Len(old) + 1, Len(str)), old, new)
         ELSE <<Head(str)>> \o ReplaceAll(Tail(str), old, new)

RECURSIVE Join(_, _)
Join(list, sep) ==
    IF list = <<>> THEN <<>>
    ELSE IF Len(list) = 1 THEN list[1]
         ELSE list[1] \o sep \o Join(Tail(list), sep)

-----------------------------------------------------------------------------
(* StringSlice.Value *)

\* one element as the loop body rewrites it
QuoteElem(elem) ==
    <<DQ>> \o ReplaceAll(ReplaceAll(elem, <<BS>>, <<BS, BS, BS>>), <<DQ>>, <<BS, DQ>>) \o <<DQ>>

\* the receiver's elements after the loop: s[i] is assigned through the shared backing array
ValueElems(list) == [i \in 1..Len(list) |-> QuoteElem(list[i])]

\* the returned driver.Value
ValueText(list) == <<LBRACE>> \o Join(ValueElems(list), <<COMMA>>) \o <<RBRACE>>

-----------------------------------------------------------------------------
(* StringSlice.Scan *)

\* length of the run of backslashes str starts with
RECURSIVE BackslashRun(_)
BackslashRun(str) ==
    IF str # <<>> /\ Head(str) = BS THEN 1 + BackslashRun(Tail(str)) ELSE 0

\* quoteEscapeRegex.ReplaceAllString(str, `$1""`): leftmost, non-overlapping matches of
\* ([^\\]([\\]{2})*)\\" ; a match starts at a non-backslash, takes the whole run of
\* backslashes after it (an odd number, since the last one belongs to \") and the quote
RECURSIVE ReplaceQuoteEscapes(_)
ReplaceQuoteEscapes(str) ==
    IF str = <<>> THEN <<>>
    ELSE LET n == BackslashRun(Tail(str))
         IN IF /\ Head(str) # BS
               /\ n % 2 = 1
               /\ Len(str) >= n + 2
               /\ str[n + 2] = DQ
            THEN SubSeq(str, 1, n) \o <<DQ, DQ>>
                     \o ReplaceQuoteEscapes(SubSeq(str, n + 3, Len(str)))
            ELSE <<Head(str)>> \o ReplaceQuoteEscapes(Tail(str))

\* index of the first c in str, 0 when there is none
RECURSIVE IndexOf(_, _)
IndexOf(str, c) ==
    IF str = <<>> THEN 0
    ELSE IF Head(str) = c THEN 1
         ELSE LET i == IndexOf(Tail(str), c) IN IF i = 0 THEN 0 ELSE i + 1

\* csv.Reader.Read on a one-line input, default settings (comma separator, no lazy quotes)
RECURSIVE ParseFields(_, _)
RECURSIVE ParseQuoted(_, _, _)
ParseFields(line, rec) ==
    IF line = <<>> \/ Head(line) # DQ
    THEN LET i == IndexOf(line, COMMA)
             field == IF i > 0 THEN SubSeq(line, 1, i - 1) ELSE line
         IN IF IndexOf(field, DQ) > 0
            THEN [err |-> "ErrBareQuote", rec |-> <<>>]
            ELSE IF i > 0
                 THEN ParseFields(SubSeq(line, i + 1, Len(line)), Append(rec, field))
                 ELSE [err |-> "nil", rec |-> Append(rec, field)]
    ELSE ParseQuoted(Tail(line), <<>>, rec)

ParseQuoted(line, buf, rec) ==
    LET i == IndexOf(line, DQ)
    IN IF i = 0
       THEN [err |-> "ErrQuote", rec |-> <<>>]
       ELSE LET got == buf \o SubSeq(line, 1, i - 1)
                rest == SubSeq(line, i + 1, Len(line))
            IN IF rest = <<>>
               THEN [err |-> "nil", rec |-> Append(rec, got)]
               ELSE IF Head(rest) = DQ
                    THEN ParseQuoted(Tail(rest), Append(got, DQ), rec)
                    ELSE IF Head(rest) = COMMA
                         THEN ParseFields(Tail(rest), Append(rec, got))
                         ELSE [err |-> "ErrQuote", rec |-> <<>>]

CsvRead(line) ==
    IF line = <<>> THEN [err |-> "EOF", rec |-> <<>>] ELSE ParseFields(line, <<>>)

\* the text after the two normalisation passes, before the braces are cut off
Normalize(bytes) == ReplaceAll(ReplaceQuoteEscapes(bytes), <<BS, BS>>, <<BS>>)

\* variant: the receiver is assigned before the error of the reader is looked at
ScanResult_AssignFirst(old, src) ==
    IF ~src.isBytes THEN [err |-> "ErrNotBytes", list |-> old]
    ELSE LET str == Normalize(src.bytes)
         IN IF Len(str) < 2 THEN [err |-> "panic", list |-> old]
            ELSE LET r == CsvRead(SubSeq(str, 2, Len(str) - 1))
                 IN [err |-> IF r.err = "EOF" THEN "nil" ELSE r.err, list |-> r.rec]

\* variant: every error of the reader is returned, io.EOF included
ScanResult_EofIsError(old, src) ==
    IF ~src.isBytes THEN [err |-> "ErrNotBytes", list |-> old]
    ELSE LET str == Normalize(src.bytes)
         IN IF Len(str) < 2 THEN [err |-> "panic", list |-> old]
            ELSE LET r == CsvRead(SubSeq(str, 2, Len(str) - 1))
                 IN IF r.err # "nil"
                    THEN [err |-> r.err, list |-> old]
                    ELSE [err |-> "nil", list |-> r.rec]

\* Scan(src) on a receiver holding old: the error returned and the receiver afterwards.
\* str[1 : len(str)-1] is out of range for a text shorter than two bytes: a run-time panic.
ScanResult(old, src) ==
    IF ~src.isBytes THEN [err |-> "ErrNotBytes", list |-> old]
    ELSE LET str == Normalize(src.bytes)
         IN IF Len(str) < 2 THEN [err |-> "panic", list |-> old]
            ELSE LET r == CsvRead(SubSeq(str, 2, Len(str) - 1))
                 IN IF r.err # "nil" /\ r.err # "EOF"
                    THEN [err |-> r.err, list |-> old]
                    ELSE [err |-> "nil", list |-> r.rec]

-----------------------------------------------------------------------------
(* StructuredInput.Add *)

\* variant: the ActorI case appends to Objects
AddOne_ActorToObjects(in, w) ==
    CASE w.Class = CommandI -> [ok |-> TRUE, si |-> [in EXCEPT !.Commands = Append(@, w.Word)]]
      [] w.Class = ActorI -> [ok |-> TRUE, si |-> [in EXCEPT !.Objects = Append(@, w.Word)]]
      [] w.Class = ObjectI -> [ok |-> TRUE, si |-> [in EXCEPT !.Objects = Append(@, w.Word)]]
      [] w.Class = TimeI -> [ok |-> TRUE, si |-> [in EXCEPT !.Times = Append(@, w.Word)]]
      [] w.Class = PlaceI -> [ok |-> TRUE, si |-> [in EXCEPT !.Places = Append(@, w.Word)]]
      [] w.Class = NoneI -> [ok |-> TRUE, si |-> in]
      [] OTHER -> [ok |-> FALSE, si |-> in]

\* the body of the switch for one pair: the input afterwards, ok = FALSE in the default case
AddOne(in, w) ==
    CASE w.Class = CommandI -> [ok |-> TRUE, si |-> [in EXCEPT !.Commands = Append(@, w.Word)]]
      [] w.Class = ActorI -> [ok |-> TRUE, si |-> [in EXCEPT !.Actors = Append(@, w.Word)]]
      [] w.Class = ObjectI -> [ok |-> TRUE, si |-> [in EXCEPT !.Objects = Append(@, w.Word)]]
      [] w.Class = TimeI -> [ok |-> TRUE, si |-> [in EXCEPT !.Times = Append(@, w.Word)]]
      [] w.Class = PlaceI -> [ok |-> TRUE, si |-> [in EXCEPT !.Places = Append(@, w.Word)]]
      [] w.Class = NoneI -> [ok |-> TRUE, si |-> in]
      [] OTHER -> [ok |-> FALSE, si |-> in]

\* the range loop from pair i on; n counts the pairs gone through before the return
RECURSIVE AddLoop(_, _, _)
AddLoop(in, wc, i) ==
    IF i > Len(wc) THEN [si |-> in, err |-> "nil", n |-> Len(wc)]
    ELSE LET r == AddOne(in, wc[i])
         IN IF r.ok THEN AddLoop(r.si, wc, i + 1)
            ELSE [si |-> in, err |-> "ErrInvalidClass", n |-> i - 1]

\* variant: a failed batch is undone
AddResult_Rollback(in, wc) ==
    IF Len(wc) = 0 THEN [si |-> in, err |-> "ErrInvalidOddParameter", n |-> 0]
    ELSE LET r == AddLoop(in, wc, 1)
         IN IF r.err = "nil" THEN r ELSE [si |-> in, err |-> r.err, n |-> 0]

\* variant: no test of the length
AddResult_NoLengthTest(in, wc) == AddLoop(in, wc, 1)

AddResult(in, wc) ==
    IF Len(wc) = 0 THEN [si |-> in, err |-> "ErrInvalidOddParameter", n |-> 0]
    ELSE AddLoop(in, wc, 1)

-----------------------------------------------------------------------------
(* StructuredInput.Pronouns *)

\* one of the four range loops: p with the pronouns of list appended
RECURSIVE AppendPronouns(_, _)
AppendPronouns(p, list) ==
    IF list = <<>> THEN p
    ELSE AppendPronouns(IF PronounsMap(Head(list)) # 0 THEN Append(p, Head(list)) ELSE p,
                        Tail(list))

\* variant: the loop over Actors comes first
PronounsOf_ActorsFirst(in) ==
    [isNil |-> FALSE,
     list |-> AppendPronouns(AppendPronouns(AppendPronouns(AppendPronouns(<<>>,
                  in.Actors), in.Objects), in.Times), in.Places)]

\* p starts as []string{}, an empty slice that is not nil
PronounsOf(in) ==
    [isNil |-> FALSE,
     list |-> AppendPronouns(AppendPronouns(AppendPronouns(AppendPronouns(<<>>,
                  in.Objects), in.Actors), in.Times), in.Places)]

-----------------------------------------------------------------------------
(* StructuredInput.String *)

LabelCommands == <<"C", "o", "m", "m", "a", "n", "d", ":", " ">>
LabelActors == <<"A", "c", "t", "o", "r", "s", ":", " ">>
LabelObjects == <<"O", "b", "j", "e", "c", "t", "s", ":", " ">>
LabelTimes == <<"T", "i", "m", "e", "s", ":", " ">>
LabelPlaces == <<"P", "l", "a", "c", "e", "s", ":", " ">>

\* variant: the line is added whatever the length of list
AddLine_NoLengthTest(text, label, list) == text \o label \o Join(list, <<",", " ">>) \o <<NL>>

\* one of the five if statements: text with the line of list added when list is not empty
AddLine(text, label, list) ==
    IF Len(list) > 0 THEN text \o label \o Join(list, <<",", " ">>) \o <<NL>> ELSE text

StringOf(in) ==
    LET t == AddLine(AddLine(AddLine(AddLine(AddLine(<<NL>>,
                 LabelCommands, in.Commands), LabelActors, in.Actors),
                 LabelObjects, in.Objects), LabelTimes, in.Times), LabelPlaces, in.Places)
    IN SubSeq(t, 1, Len(t) - 1) \o <<NL>>

-----------------------------------------------------------------------------
(* Inputs *)

SeqsUpTo(S, n) == UNION {[1..k -> S] : k \in 0..n}

Min(a, b) == IF a < b THEN a ELSE b

\* words the classifier hands over: a pronoun and a noun
AddWords == {<<"i", "t">>, <<"c", "a", "r">>}

\* class numbers handed over: the six known ones, the zero value and one past NoneI
ClassInputs == 0..(NoneI + 1)

WordClass == [Word : AddWords, Class : ClassInputs]

\* words of a StructuredInput that is read: two pronouns and a noun, in any of the lists
ReadWords == {<<"i", "t">>, <<"m", "e">>, <<"c", "a", "r">>}

FilledInputs ==
    {AddLoop(EmptyInput, wc, 1).si :
        wc \in SeqsUpTo([Word : ReadWords, Class : CommandI..PlaceI], MaxFill)}

\* elements of the list a codec run starts from
Elems == {<<>>, <<"a">>, <<COMMA>>, <<DQ>>, <<BS>>, <<DQ, DQ>>}

\* bytes of a column text
SrcChars == {LBRACE, RBRACE, DQ, BS, COMMA, "a"}

\* a src that is no []byte (a NULL column, an int64, ...)
NotBytes == [isBytes |-> FALSE, bytes |-> <<>>]

Bytes(text) == [isBytes |-> TRUE, bytes |-> text]

-----------------------------------------------------------------------------
(* State machine *)

NoCall ==
    [op |-> "none", err |-> "nil", wc |-> <<>>, text |-> <<>>, list |-> <<>>,
     isNil |-> FALSE, preSI |-> EmptyInput, preS |-> <<>>, again |-> FALSE,
     prevText |-> <<>>]

NoEnc == [valid |-> FALSE, list |-> <<>>]

\* a panic ends the process
Running == call.err # "panic"

AddStep ==
    \E wc \in SeqsUpTo(WordClass, Min(MaxBatch, MaxWords - handed)) :
        /\ Running
        /\ LET r == AddResult(si, wc)
           IN /\ si' = r.si
              /\ applied' = applied \o SubSeq(wc, 1, r.n)
              /\ handed' = handed + Len(wc)
              /\ call' = [NoCall EXCEPT !.op = "Add", !.err = r.err, !.wc = wc, !.preSI = si]
        /\ UNCHANGED <<s, col, enc>>

PronounsStep ==
    /\ Running
    /\ LET r == PronounsOf(si)
       IN call' = [NoCall EXCEPT !.op = "Pronouns", !.list = r.list, !.isNil = r.isNil,
                                 !.preSI = si]
    /\ UNCHANGED <<si, applied, handed, s, col, enc>>

StringStep ==
    /\ Running
    /\ call' = [NoCall EXCEPT !.op = "String", !.text = StringOf(si), !.preSI = si]
    /\ UNCHANGED <<si, applied, handed, s, col, enc>>

\* s.Value(), the returned text written to the column
ValueStep ==
    /\ Running
    /\ \A i \in 1..Len(s) : Len(QuoteElem(s[i])) <= MaxElemLen
    /\ s' = ValueElems(s)
    /\ col' = Bytes(ValueText(s))
    /\ enc' = [valid |-> TRUE, list |-> s]
    /\ call' = [NoCall EXCEPT !.op = "Value", !.text = ValueText(s), !.preS = s,
                              !.again = (call.op = "Value"),
                              !.prevText = IF call.op = "Value" THEN call.text ELSE <<>>]
    /\ UNCHANGED <<si, applied, handed>>

\* s.Scan(col)
ScanStep ==
    /\ Running
    /\ LET r == ScanResult(s, col)
       IN /\ s' = r.list
          /\ call' = [NoCall EXCEPT !.op = "Scan", !.err = r.err, !.preS = s]
    /\ UNCHANGED <<si, applied, handed, col, enc>>

\* a StructuredInput created empty and filled by Add
InitInput ==
    /\ si = EmptyInput
    /\ applied = <<>>
    /\ handed = 0
    /\ s = <<>>
    /\ col = NotBytes
    /\ enc = NoEnc
    /\ call = NoCall

NextInput == AddStep

SpecInput == InitInput /\ [][NextInput]_vars

\* a StructuredInput after ingestion, handed on to be read
InitRead ==
    /\ si \in FilledInputs
    /\ applied = <<>>
    /\ handed = 0
    /\ s = <<>>
    /\ col = NotBytes
    /\ enc = NoEnc
    /\ call = NoCall

NextRead == PronounsStep \/ StringStep

SpecRead == InitRead /\ [][NextRead]_vars

\* a StringSlice with some content and a column with some content
InitCodec ==
    /\ si = EmptyInput
    /\ applied = <<>>
    /\ handed = 0
    /\ s \in SeqsUpTo(Elems, MaxInput)
    /\ col \in {NotBytes} \cup {Bytes(b) : b \in SeqsUpTo(SrcChars, MaxInput - Len(s))}
    /\ enc = NoEnc
    /\ call = NoCall

NextCodec == ValueStep \/ ScanStep

SpecCodec == InitCodec /\ [][NextCodec]_vars

-----------------------------------------------------------------------------
(* Properties of Add, under SpecInput *)

KnownClasses == {CommandI, ActorI, ObjectI, TimeI, PlaceI, NoneI}

\* the words of the pairs of class c, in their order in wc
RECURSIVE WordsOf(_, _)
WordsOf(wc, c) ==
    IF wc = <<>> THEN <<>>
    ELSE (IF Head(wc).Class = c THEN <<Head(wc).Word>> ELSE <<>>) \o WordsOf(Tail(wc), c)

\* in with every pair of wc appended to the list of its class
Routed(in, wc) ==
    [Commands |-> in.Commands \o WordsOf(wc, CommandI),
     Actors |-> in.Actors \o WordsOf(wc, ActorI),
     Objects |-> in.Objects \o WordsOf(wc, ObjectI),
     Times |-> in.Times \o WordsOf(wc, TimeI),
     Places |-> in.Places \o WordsOf(wc, PlaceI)]

BadAt(wc) == {i \in 1..Len(wc) : wc[i].Class \notin KnownClasses}

FirstBad(wc) == CHOOSE i \in BadAt(wc) : \A j \in BadAt(wc) : i <= j

\* C3: an Add whose batch holds a pair of unknown class returns ErrInvalidClass, and the
\* lists are then the lists before the call with exactly the pairs in front of the first
\* such pair appended: those stay applied, no later pair is applied.
C3_AddFailsFast ==
    (call.op = "Add" /\ BadAt(call.wc) # {}) =>
        /\ call.err = "ErrInvalidClass"
        /\ si = Routed(call.preSI, SubSeq(call.wc, 1, FirstBad(call.wc) - 1))

\* a failed batch with an appended pair in front of the unknown class and a pair behind it
C3_Witness ==
    /\ call.op = "Add"
    /\ call.err = "ErrInvalidClass"
    /\ Len(call.wc) = 3
    /\ FirstBad(call.wc) = 2
    /\ call.wc[1].Class = CommandI
    /\ call.wc[3].Class = ActorI
    /\ si.Commands = <<call.wc[1].Word>>
    /\ si.Actors = <<>>

\* C4: an Add with no pair returns an error (ErrInvalidOddParameter in the code) and
\* leaves the five lists as they were.
C4_AddEmptyBatch ==
    (call.op = "Add" /\ call.wc = <<>>) =>
        /\ call.err = "ErrInvalidOddParameter"
        /\ si = call.preSI

\* an empty batch handed to an input that already holds words in two lists
C4_Witness ==
    /\ call.op = "Add"
    /\ call.wc = <<>>
    /\ call.err = "ErrInvalidOddParameter"
    /\ si.Commands # <<>>
    /\ si.Places # <<>>

\* C5: after any sequence of Add calls on an input created empty, each list holds exactly
\* the words of the applied pairs of its class, in arrival order, duplicates kept; pairs of
\* class NoneI are in no list.
C5_Routing == si = Routed(EmptyInput, applied)

\* three applied pairs: the same word twice in one list, and one ignored pair
C5_Witness ==
    /\ Len(applied) = 3
    /\ \E i, j, k \in 1..3 :
           /\ i < j
           /\ applied[i].Class = TimeI /\ applied[j].Class = TimeI
           /\ applied[i].Word = applied[j].Word
           /\ applied[k].Class = NoneI
    /\ Len(si.Times) = 2
    /\ si.Commands = <<>> /\ si.Actors = <<>> /\ si.Objects = <<>> /\ si.Places = <<>>

-----------------------------------------------------------------------------
(* Properties of Pronouns and String, under SpecRead *)

PronounSet ==
    {<<"m", "e">>, <<"u", "s">>, <<"y", "o", "u">>, <<"h", "i", "m">>, <<"h", "e", "r">>,
     <<"t", "h", "e", "m">>, <<"i", "t">>, <<"t", "h", "a", "t">>,
     <<"t", "h", "e", "r", "e">>, <<"t", "h", "e", "n">>}

IsPronoun(w) == w \in PronounSet

\* C6: Pronouns returns the pronouns of Objects, then of Actors, then of Times, then of
\* Places, each list in its own order, nothing from Commands and no other word; the result
\* is never nil, and the input is left as it was.
C6_Pronouns ==
    call.op = "Pronouns" =>
        /\ call.list = SelectSeq(call.preSI.Objects, IsPronoun)
                           \o SelectSeq(call.preSI.Actors, IsPronoun)
                           \o SelectSeq(call.preSI.Times, IsPronoun)
                           \o SelectSeq(call.preSI.Places, IsPronoun)
        /\ ~call.isNil
        /\ si = call.preSI

\* a pronoun in Commands, a pronoun and a noun in Objects, another pronoun in Actors
C6_Witness ==
    /\ call.op = "Pronouns"
    /\ si.Commands = << <<"m", "e">> >>
    /\ si.Objects = << <<"c", "a", "r">>, <<"i", "t">> >>
    /\ si.Actors = << <<"m", "e">> >>
    /\ call.list = << <<"i", "t">>, <<"m", "e">> >>

\* the line of one list: nothing for an empty list
ExpectedLine(label, list) ==
    IF list = <<>> THEN <<>> ELSE label \o Join(list, <<",", " ">>) \o <<NL>>

\* C8: String returns a newline followed by one line per non-empty list, in the order
\* Command, Actors, Objects, Times, Places: the label, the elements joined by ", ", a
\* newline.  An empty list has no line and the text does not end with an empty line.
C8_String ==
    call.op = "String" =>
        /\ call.text = <<NL>> \o ExpectedLine(LabelCommands, call.preSI.Commands)
                              \o ExpectedLine(LabelActors, call.preSI.Actors)
                              \o ExpectedLine(LabelObjects, call.preSI.Objects)
                              \o ExpectedLine(LabelTimes, call.preSI.Times)
                              \o ExpectedLine(LabelPlaces, call.preSI.Places)
        /\ Len(call.text) >= 2 =>
               ~(call.text[Len(call.text)] = NL /\ call.text[Len(call.text) - 1] = NL)

\* only Actors = ["me"]: the text is "\nActors: me\n"
C8_Witness ==
    /\ call.op = "String"
    /\ si = [EmptyInput EXCEPT !.Actors = << <<"m", "e">> >>]
    /\ call.text = <<NL, "A", "c", "t", "o", "r", "s", ":", " ", "m", "e", NL>>

-----------------------------------------------------------------------------
(* Properties of the codec, under SpecCodec *)

EmptyArray == <<LBRACE, RBRACE>>

\* C1: Scan of a text that Value returned for a list L succeeds and leaves the receiver
\* equal to L as it was before Value.
C1_RoundTrip ==
    (call.op = "Scan" /\ enc.valid) =>
        /\ call.err = "nil"
        /\ s = enc.list

\* C2: Value leaves the elements of its receiver as they were, and a second Value in a
\* row returns the text of the first.
C2_ValuePure ==
    call.op = "Value" =>
        /\ s = call.preS
        /\ call.again => call.text = call.prevText

\* C7: when Scan returns an error, for a src that is no []byte or for a text the reader
\* rejects, the receiver holds what it held before the call.
C7_ScanErrorKeepsReceiver ==
    (call.op = "Scan" /\ call.err \in {"ErrNotBytes", "ErrQuote", "ErrBareQuote"}) =>
        s = call.preS

\* a text the reader rejects, scanned into a receiver that holds elements
C7_Witness ==
    /\ call.op = "Scan"
    /\ call.err = "ErrQuote"
    /\ col.isBytes
    /\ call.preS # <<>>
    /\ s = call.preS

\* C9: Value of the empty list returns "{}", and Scan of "{}" returns no error and sets
\* the receiver to a list of length zero, whatever it held.
C9_EmptyList ==
    /\ (call.op = "Value" /\ call.preS = <<>>) => call.text = EmptyArray
    /\ (call.op = "Scan" /\ col = Bytes(EmptyArray)) => (call.err = "nil" /\ Len(s) = 0)

\* "{}" scanned into a receiver that held elements
C9_Witness ==
    /\ call.op = "Scan"
    /\ col = Bytes(EmptyArray)
    /\ call.preS # <<>>
    /\ call.err = "nil"
    /\ s = <<>>

\* C10: Scan of any []byte returns, with nil or with an error; it does not panic.
C10_ScanTotal == (call.op = "Scan" /\ col.isBytes) => call.err # "panic"

====
